---- MODULE Spec2Model ----
(***************************************************************************)
(* clustering_allele_variants.py: read_clusters builds the index           *)
(* {sample : {allele : cluster_id}} from a cd-hit-est cluster report, and   *)
(* assign_clusterIDs rewrites the variant calls of an SRST2 table with it.  *)
(*                                                                         *)
(* Text is modelled by TLA+ strings (Len, SubSeq and \o act on them as on  *)
(* Python str).  A file is its raw text; the lines the program sees are    *)
(* computed from the text the way Python 2 computes them.                  *)
(***************************************************************************)
EXTENDS Integers, Sequences, FiniteSets, TLC

VARIABLES cfile, tfile, pc, err, ci, cluster_id, clusters, out,
          ri, fi, fields, sample, new_line

vars == <<cfile, tfile, pc, err, ci, cluster_id, clusters, out,
          ri, fi, fields, sample, new_line>>

(***************************************************************************)
(* Python str operations used by the script                                *)
(***************************************************************************)
Min(S) == CHOOSE x \in S : \A y \in S : x <= y

\* s[i] for a 1-based position i
Ch(s, i) == SubSeq(s, i, i)

\* s.startswith(p)
StartsWith(s, p) == Len(s) >= Len(p) /\ SubSeq(s, 1, Len(p)) = p

\* positions at which the literal p occurs in s
Occurrences(s, p) ==
    {i \in 1..(Len(s) - Len(p) + 1) : SubSeq(s, i, i + Len(p) - 1) = p}

\* s.rstrip(c) for a one-character c: every trailing c is removed
RStrip(s, c) ==
    LET keep == {i \in 0..Len(s) : \A j \in (i + 1)..Len(s) : Ch(s, j) = c}
    IN  SubSeq(s, 1, Min(keep))

\* s.lstrip(c)
LStrip(s, c) ==
    LET drop == {i \in 0..Len(s) : \A j \in 1..i : Ch(s, j) = c}
        d    == CHOOSE i \in drop : \A k \in drop : k <= i
    IN  SubSeq(s, d + 1, Len(s))

\* s.strip(c)
Strip(s, c) == RStrip(LStrip(s, c), c)

\* s.split(sep) for a non-empty separator: non-overlapping, left to right
RECURSIVE Split(_, _)
Split(s, sep) ==
    LET hits == Occurrences(s, sep)
    IN  IF hits = {} THEN <<s>>
        ELSE LET i == Min(hits)
             IN  <<SubSeq(s, 1, i - 1)>> \o
                 Split(SubSeq(s, i + Len(sep), Len(s)), sep)

\* sep.join(parts)
RECURSIVE Join(_, _)
Join(parts, sep) ==
    IF Len(parts) = 0 THEN ""
    ELSE IF Len(parts) = 1 THEN parts[1]
    ELSE parts[1] \o sep \o Join(Tail(parts), sep)

\* seq[-1]
Last(seq) == seq[Len(seq)]

\* seq[-2:]
LastTwo(seq) ==
    IF Len(seq) >= 2 THEN SubSeq(seq, Len(seq) - 1, Len(seq)) ELSE seq

\* re.findall(open + "(.+?)" + close, s)[:1] for literal open and close:
\* the leftmost start that has a match, and from it the shortest non-empty
\* group free of newlines.  <<>> when nothing matches.
ReFindFirst(s, open, close) ==
    LET ends(i) == {k \in Occurrences(s, close) :
                      /\ k >= i + Len(open) + 1
                      /\ \A j \in (i + Len(open))..(k - 1) : Ch(s, j) # "\n"}
        starts  == {i \in Occurrences(s, open) : ends(i) # {}}
    IN  IF starts = {} THEN <<>>
        ELSE LET i == Min(starts)
             IN  <<SubSeq(s, i + Len(open), Min(ends(i)) - 1)>>

(***************************************************************************)
(* open(file, "rU"): universal newlines, then the lines with their "\n"    *)
(***************************************************************************)
\* "\r\n" and a lone "\r" are read as "\n"
RECURSIVE UniversalNewlines(_)
UniversalNewlines(text) ==
    LET hits == Occurrences(text, "\r")
    IN  IF hits = {} THEN text
        ELSE LET i    == Min(hits)
                 skip == IF i < Len(text) /\ Ch(text, i + 1) = "\n"
                         THEN 2 ELSE 1
             IN  SubSeq(text, 1, i - 1) \o "\n" \o
                 UniversalNewlines(SubSeq(text, i + skip, Len(text)))

RECURSIVE SplitKeepEnds(_)
SplitKeepEnds(text) ==
    IF Len(text) = 0 THEN <<>>
    ELSE LET hits == Occurrences(text, "\n")
         IN  IF hits = {} THEN <<text>>
             ELSE <<SubSeq(text, 1, Min(hits))>> \o
                  SplitKeepEnds(SubSeq(text, Min(hits) + 1, Len(text)))

\* the lines "for line in f" and f.readlines() yield
FileLines(text) == SplitKeepEnds(UniversalNewlines(text))

(***************************************************************************)
(* The index: a dict of dicts.  collections.defaultdict(dict) creates an   *)
(* empty inner dict whenever a missing sample key is read.                 *)
(***************************************************************************)
EmptyDict == [k \in {} |-> ""]

\* clusters[sample], as __getitem__/__missing__ of defaultdict(dict) leave
\* the outer dict
DefaultGet(d, s) == IF s \in DOMAIN d THEN d ELSE (s :> EmptyDict) @@ d

\* clusters[sample][allele] = id
DictSet(d, s, a, id) ==
    LET d1 == DefaultGet(d, s)
    IN  (s :> ((a :> id) @@ d1[s])) @@ d1

(***************************************************************************)
(* get_alleleID and read_clusters                                          *)
(***************************************************************************)
\* get_alleleID splitting on a single underscore
get_alleleID_SingleUnderscore(id) == Join(LastTwo(Split(id, "_")), "_")

get_alleleID(id) == Join(LastTwo(Split(id, "__")), "_")

\* line.startswith(">")
IsHeader(line) == StartsWith(line, ">")

\* line.split(" ")[-1]
HeaderClusterId(line) == Last(Split(line, " "))

\* ReadLine keeping the first cluster identifier: later headers do not
\* reassign it
ReadLine_StaleHeader(st, raw) ==
    LET line == Strip(raw, "\n")
        seq  == ReFindFirst(line, ">", ".consensus")
        smp  == ReFindFirst(line, "|", "...")
    IN  IF IsHeader(line)
        THEN IF st.cluster_id = <<>>
             THEN [st EXCEPT !.cluster_id = <<HeaderClusterId(line)>>]
             ELSE st
        ELSE IF seq = <<>> THEN [st EXCEPT !.err = "IndexError"]
        ELSE IF smp = <<>> THEN [st EXCEPT !.err = "IndexError"]
        ELSE IF st.cluster_id = <<>>
             THEN [st EXCEPT !.err = "UnboundLocalError"]
        ELSE [st EXCEPT !.clusters =
                 DictSet(st.clusters, smp[1], get_alleleID(seq[1]),
                         st.cluster_id[1])]

\* ReadLine skipping a member line that does not match, and reading on
ReadLine_SkipUnmatched(st, raw) ==
    LET line == Strip(raw, "\n")
        seq  == ReFindFirst(line, ">", ".consensus")
        smp  == ReFindFirst(line, "|", "...")
    IN  IF IsHeader(line)
        THEN [st EXCEPT !.cluster_id = <<HeaderClusterId(line)>>]
        ELSE IF seq = <<>> \/ smp = <<>> THEN st
        ELSE IF st.cluster_id = <<>>
             THEN [st EXCEPT !.err = "UnboundLocalError"]
        ELSE [st EXCEPT !.clusters =
                 DictSet(st.clusters, smp[1], get_alleleID(seq[1]),
                         st.cluster_id[1])]

\* One pass of the loop body of read_clusters over a raw line, from the
\* local state st = [err, cluster_id, clusters].  cluster_id is <<>> while
\* the local name is unbound and <<id>> afterwards.
ReadLine(st, raw) ==
    LET line == Strip(raw, "\n")
        seq  == ReFindFirst(line, ">", ".consensus")
        smp  == ReFindFirst(line, "|", "...")
    IN  IF IsHeader(line)
        THEN [st EXCEPT !.cluster_id = <<HeaderClusterId(line)>>]
        ELSE IF seq = <<>> THEN [st EXCEPT !.err = "IndexError"]
        ELSE IF smp = <<>> THEN [st EXCEPT !.err = "IndexError"]
        ELSE IF st.cluster_id = <<>>
             THEN [st EXCEPT !.err = "UnboundLocalError"]
        ELSE [st EXCEPT !.clusters =
                 DictSet(st.clusters, smp[1], get_alleleID(seq[1]),
                         st.cluster_id[1])]

\* read_clusters over the lines of a file: the loop stops at the first
\* exception
RECURSIVE ReadFrom(_, _, _)
ReadFrom(st, lines, i) ==
    IF i > Len(lines) \/ st.err # "none" THEN st
    ELSE ReadFrom(ReadLine(st, lines[i]), lines, i + 1)

read_clusters(lines) ==
    ReadFrom([err |-> "none", cluster_id |-> <<>>, clusters |-> EmptyDict],
             lines, 1)

(***************************************************************************)
(* assign_clusterIDs: the body of the inner loop for one field             *)
(***************************************************************************)
\* StripUncertain removing one question mark only
StripUncertain_Once(allele) ==
    IF Len(allele) >= 1 /\ Ch(allele, Len(allele)) = "?"
    THEN SubSeq(allele, 1, Len(allele) - 1)
    ELSE allele

\* allele.rstrip("?")
StripUncertain(allele) == RStrip(allele, "?")

\* RewriteField joining the cluster identifier to the call with its "*"
RewriteField_KeepsStar(d, s, field) ==
    LET allele == StripUncertain(field)
        name   == SubSeq(allele, 1, Len(allele) - 1)
        d1     == DefaultGet(d, s)
    IN  IF Len(allele) = 0
        THEN [err |-> "IndexError", value |-> "", clusters |-> d]
        ELSE IF Ch(allele, Len(allele)) = "*"
        THEN IF name \in DOMAIN d1[s]
             THEN [err |-> "none", value |-> allele \o "." \o d1[s][name],
                   clusters |-> d1]
             ELSE [err |-> "KeyError", value |-> "", clusters |-> d1]
        ELSE [err |-> "none", value |-> allele, clusters |-> d]

\* RewriteField passing a variant the index lacks through, without its "*"
RewriteField_MissingPasses(d, s, field) ==
    LET allele == StripUncertain(field)
        name   == SubSeq(allele, 1, Len(allele) - 1)
        d1     == DefaultGet(d, s)
    IN  IF Len(allele) = 0
        THEN [err |-> "IndexError", value |-> "", clusters |-> d]
        ELSE IF Ch(allele, Len(allele)) = "*"
        THEN IF name \in DOMAIN d1[s]
             THEN [err |-> "none", value |-> name \o "." \o d1[s][name],
                   clusters |-> d1]
             ELSE [err |-> "none", value |-> name, clusters |-> d1]
        ELSE [err |-> "none", value |-> allele, clusters |-> d]

\* Lines 68-71 for one field: [err, value, clusters].  allele[-1] raises
\* IndexError on an empty string; clusters[sample] goes through defaultdict.
RewriteField(d, s, field) ==
    LET allele == StripUncertain(field)
        name   == SubSeq(allele, 1, Len(allele) - 1)
        d1     == DefaultGet(d, s)
    IN  IF Len(allele) = 0
        THEN [err |-> "IndexError", value |-> "", clusters |-> d]
        ELSE IF Ch(allele, Len(allele)) = "*"
        THEN IF name \in DOMAIN d1[s]
             THEN [err |-> "none", value |-> name \o "." \o d1[s][name],
                   clusters |-> d1]
             ELSE [err |-> "KeyError", value |-> "", clusters |-> d1]
        ELSE [err |-> "none", value |-> allele, clusters |-> d]

\* lines 67-71 over the calls of a row, from call j on, up to the first
\* exception: [err, new_line, clusters]
RECURSIVE RewriteFieldsFrom(_, _, _, _)
RewriteFieldsFrom(st, s, flds, j) ==
    IF j > Len(flds) \/ st.err # "none" THEN st
    ELSE LET r == RewriteField(st.clusters, s, flds[j])
         IN  RewriteFieldsFrom(
                 [err      |-> r.err,
                  new_line |-> IF r.err = "none"
                               THEN Append(st.new_line, r.value)
                               ELSE st.new_line,
                  clusters |-> r.clusters], s, flds, j + 1)

\* lines 63-72 over the rows, from line k of the table on: [err, out, clusters]
RECURSIVE RewriteRowsFrom(_, _, _)
RewriteRowsFrom(st, lines, k) ==
    IF k > Len(lines) \/ st.err # "none" THEN st
    ELSE LET flds == Split(RStrip(lines[k], "\n"), "\t")
             r    == RewriteFieldsFrom([err |-> "none", new_line |-> <<flds[1]>>,
                                        clusters |-> st.clusters],
                                       flds[1], flds, 2)
         IN  RewriteRowsFrom(
                 [err      |-> r.err,
                  out      |-> IF r.err = "none"
                               THEN Append(st.out, Join(r.new_line, "\t"))
                               ELSE st.out,
                  clusters |-> r.clusters], lines, k + 1)

\* assign_clusterIDs over the lines of the table: what is printed, the
\* exception that ended it if any, and the index as it is left
assign_clusterIDs(lines, d) ==
    IF Len(lines) = 0
    THEN [err |-> "IndexError", out |-> <<>>, clusters |-> d]
    ELSE RewriteRowsFrom([err |-> "none", out |-> <<Strip(lines[1], "\n")>>,
                          clusters |-> d], lines, 2)

\* main over the texts of the cluster report and of the table
main(ctext, ttext) ==
    LET r == read_clusters(FileLines(ctext))
    IN  IF r.err # "none"
        THEN [err |-> r.err, out |-> <<>>, clusters |-> r.clusters]
        ELSE assign_clusterIDs(FileLines(ttext), r.clusters)

(***************************************************************************)
(* Inputs: the two files of a run                                          *)
(***************************************************************************)
MaxClusterLines == 3
MaxRows == 2

SeqsUpTo(S, n) == UNION {[1..k -> S] : k \in 0..n}

\* the text of a file whose lines each end in "\n"
RECURSIVE TextOf(_)
TextOf(lines) ==
    IF Len(lines) = 0 THEN "" ELSE lines[1] \o "\n" \o TextOf(Tail(lines))

H0 == ">Cluster 0"
H1 == ">Cluster 1"
M1 == "0\t9nt, >5__A_x__A__7.consensus|s... *"
M2 == "1\t9nt, >6__B__8.consensus|t... at +/99%"

\* lines of a cluster report: headers, member lines, member lines without
\* the ".consensus" or the "|...", and the blank line
ClusterLinePool ==
    {H0, H1, M1, M2,
     "0\t9nt, >5__A__7|s... *",
     "0\t9nt, >5__A__7.consensus *",
     ""}

GoodReport == TextOf(<<H0, M1, H1, M2>>)

RichReports ==
    {TextOf(ls) : ls \in SeqsUpTo(ClusterLinePool, MaxClusterLines)}
    \cup {TextOf(<<H0, M1, H1, M1>>),
          TextOf(<<H0, M1, M2>>) \o "\n",
          ">Cluster 0\r\n" \o M1 \o "\r\n",
          H0 \o "\n" \o M1,
          ">Cluster 0\n>52__TetA_Tet__TetA__1545.consensus...|sampleX...\n",
          ">Cluster 0\n0\t1545nt, >52__TetA_Tet__TetA__1545.consensus...|sampleX...\n"}

\* reports the rich tables are run against: two clusters, and a cluster
\* identifier holding a tab
FewReports == {GoodReport, TextOf(<<">Cluster 2\t3", M1>>)}

TableHeader == "Sample\tA\tB"

RowPool ==
    {"s\tA_7", "s\tA_7?", "s\tA_7*?", "s\tA_7*??", "s\tA_7??",
     "s\t", "s\ta_7*", "u\tA_7*",
     "t\tB_8*?\tA_7", "s\t\tB_8*", "s\tA_7\tB_8*", "s\t-\tA_7*\t-?",
     ""}

RichTables ==
    {TextOf(<<TableHeader>> \o rows) : rows \in SeqsUpTo(RowPool, MaxRows)}
    \cup {"", TableHeader,
          "Sample\tA\r\ns\tA_7*?\r\n",
          "Sample\tA\ns\tA_7*?\tB_8"}

FewTables == {TextOf(<<TableHeader, "s\tA_7*?\tB_8", "t\tB_8*">>)}

\* the variant call Aac6-Iaa_760*? of sampleX, whose sequence is in cluster 140
ScenarioC ==
    <<">Cluster 140\n0\t760nt, >9__Aac6__Aac6-Iaa__760.consensus|sampleX... *\n",
      "Sample\tAac6\nsampleX\tAac6-Iaa_760*?\n">>

Inputs ==
    (RichReports \X FewTables) \cup (FewReports \X RichTables)
    \cup {ScenarioC}

(***************************************************************************)
(* The run: main() calls read_clusters, then assign_clusterIDs             *)
(***************************************************************************)
Init ==
    \E in \in Inputs :
        /\ cfile = FileLines(in[1])
        /\ tfile = FileLines(in[2])
        /\ pc = "read_clusters"
        /\ err = "none"
        /\ ci = 0
        /\ cluster_id = <<>>
        /\ clusters = EmptyDict
        /\ out = <<>>
        /\ ri = 0
        /\ fi = 0
        /\ fields = <<>>
        /\ sample = ""
        /\ new_line = <<>>

\* lines 45-52: one line of the cluster report
ReadClusterLine ==
    /\ pc = "read_clusters"
    /\ ci < Len(cfile)
    /\ LET st == ReadLine([err |-> "none", cluster_id |-> cluster_id,
                           clusters |-> clusters], cfile[ci + 1])
       IN  /\ err' = st.err
           /\ cluster_id' = st.cluster_id
           /\ clusters' = st.clusters
           /\ IF st.err = "none"
              THEN ci' = ci + 1 /\ pc' = pc
              ELSE ci' = ci /\ pc' = "aborted"
    /\ UNCHANGED <<cfile, tfile, out, ri, fi, fields, sample, new_line>>

\* line 53, then lines 61-62: the index is returned and the header printed
PrintHeader ==
    /\ pc = "read_clusters"
    /\ ci = Len(cfile)
    /\ IF Len(tfile) = 0
       THEN /\ err' = "IndexError"
            /\ pc' = "aborted"
            /\ UNCHANGED <<out, ri>>
       ELSE /\ out' = <<Strip(tfile[1], "\n")>>
            /\ ri' = 1
            /\ pc' = "rows"
            /\ err' = err
    /\ UNCHANGED <<cfile, tfile, ci, cluster_id, clusters, fi, fields,
                   sample, new_line>>

\* lines 63-66: the next data row is split
StartRow ==
    /\ pc = "rows"
    /\ ri < Len(tfile)
    /\ fields' = Split(RStrip(tfile[ri + 1], "\n"), "\t")
    /\ sample' = fields'[1]
    /\ new_line' = <<fields'[1]>>
    /\ fi' = 1
    /\ pc' = "fields"
    /\ UNCHANGED <<cfile, tfile, err, ci, cluster_id, clusters, out, ri>>

\* lines 67-71: one allele call of the row
ProcessField ==
    /\ pc = "fields"
    /\ fi < Len(fields)
    /\ LET r == RewriteField(clusters, sample, fields[fi + 1])
       IN  /\ clusters' = r.clusters
           /\ err' = r.err
           /\ IF r.err = "none"
              THEN /\ new_line' = Append(new_line, r.value)
                   /\ fi' = fi + 1
                   /\ pc' = pc
              ELSE /\ pc' = "aborted"
                   /\ UNCHANGED <<new_line, fi>>
    /\ UNCHANGED <<cfile, tfile, ci, cluster_id, out, ri, fields, sample>>

\* line 72: the rewritten row is printed
PrintRow ==
    /\ pc = "fields"
    /\ fi = Len(fields)
    /\ out' = Append(out, Join(new_line, "\t"))
    /\ ri' = ri + 1
    /\ pc' = "rows"
    /\ UNCHANGED <<cfile, tfile, err, ci, cluster_id, clusters, fi, fields,
                   sample, new_line>>

\* line 73: no row is left
Return ==
    /\ pc = "rows"
    /\ ri = Len(tfile)
    /\ pc' = "done"
    /\ UNCHANGED <<cfile, tfile, err, ci, cluster_id, clusters, out, ri, fi,
                   fields, sample, new_line>>

Next ==
    \/ ReadClusterLine
    \/ PrintHeader
    \/ StartRow
    \/ ProcessField
    \/ PrintRow
    \/ Return

Spec == Init /\ [][Next]_vars

(***************************************************************************)
(* Vocabulary of the properties, stated on the text of the two files       *)
(***************************************************************************)
EndsWith(s, c) == Len(s) >= 1 /\ SubSeq(s, Len(s), Len(s)) = c

DropLast(s) == SubSeq(s, 1, Len(s) - 1)

Max(S) == CHOOSE x \in S : \A y \in S : y <= x

\* a line of a file without its line end
Content(raw) == IF EndsWith(raw, "\n") THEN DropLast(raw) ELSE raw

\* a header line of the cluster report begins with ">"
IsHeaderLine(raw) == Len(raw) >= 1 /\ SubSeq(raw, 1, 1) = ">"

IsBlankLine(raw) == Content(raw) = ""

\* the cluster identifier of a header line: what follows its last space
HeaderIdOf(raw) ==
    LET line == Content(raw)
        k == CHOOSE k \in 1..(Len(line) + 1) :
               /\ \A j \in k..Len(line) : SubSeq(line, j, j) # " "
               /\ k = 1 \/ SubSeq(line, k - 1, k - 1) = " "
    IN  SubSeq(line, k, Len(line))

\* the line holds open, a non-empty text, and then close
HasFraming(raw, open, close) ==
    LET line   == Content(raw)
        at(p)  == {i \in 1..(Len(line) - Len(p) + 1) :
                     SubSeq(line, i, i + Len(p) - 1) = p}
    IN  \E i \in at(open) : \E k \in at(close) : k >= i + Len(open) + 1

WellFramed(raw) ==
    HasFraming(raw, ">", ".consensus") /\ HasFraming(raw, "|", "...")

\* <<sample, allele name>> of a member line
MemberKey(raw) ==
    <<ReFindFirst(Content(raw), "|", "...")[1],
      get_alleleID(ReFindFirst(Content(raw), ">", ".consensus")[1])>>

InIndex(d, s, a) == s \in DOMAIN d /\ a \in DOMAIN d[s]

HeadersUpTo(n) == {h \in 1..n : IsHeaderLine(cfile[h])}

\* the run is inside read_clusters, or was aborted there
InReadClusters ==
    pc = "read_clusters" \/ (pc = "aborted" /\ ci < Len(cfile))

\* the run is inside assign_clusterIDs past the header, or was aborted there
InAssign == pc \in {"rows", "fields", "done"} \/ (pc = "aborted" /\ ri >= 1)

(***************************************************************************)
(* C1.  Every member line read so far is filed under the cluster           *)
(* identifier of the nearest header line before it (the last member line   *)
(* of a (sample, allele) pair decides the entry), and the carried          *)
(* identifier is always that of the last header line read: it never        *)
(* changes at a member line.                                               *)
(***************************************************************************)
C1_MemberUnderLatestHeader ==
    /\ cluster_id = IF HeadersUpTo(ci) = {} THEN <<>>
                    ELSE <<HeaderIdOf(cfile[Max(HeadersUpTo(ci))])>>
    /\ \A j \in 1..ci :
          ~IsHeaderLine(cfile[j]) =>
             LET key  == MemberKey(cfile[j])
                 last == Max({m \in 1..ci : /\ ~IsHeaderLine(cfile[m])
                                            /\ MemberKey(cfile[m]) = key})
             IN  /\ HeadersUpTo(last) # {}
                 /\ InIndex(clusters, key[1], key[2])
                 /\ clusters[key[1]][key[2]] =
                       HeaderIdOf(cfile[Max(HeadersUpTo(last))])

\* two headers and the same member line after each: the later one decides
C1_Witness ==
    /\ ci = 4
    /\ cfile = <<H0 \o "\n", M1 \o "\n", H1 \o "\n", M1 \o "\n">>
    /\ clusters = ("s" :> ("A_7" :> "1"))

(***************************************************************************)
(* C6.  A report that ends in a blank line after its last member line is   *)
(* read without error, and its index is that of the report without the     *)
(* blank line.                                                             *)
(***************************************************************************)
C6_TrailingBlankLine ==
    LET n == Len(cfile)
    IN  ( /\ n >= 2
          /\ IsBlankLine(cfile[n])
          /\ ~IsHeaderLine(cfile[n - 1]) /\ WellFramed(cfile[n - 1])
          /\ read_clusters(SubSeq(cfile, 1, n - 1)).err = "none" )
        => /\ ~(pc = "aborted" /\ ci = n - 1)
           /\ ci = n =>
                 clusters = read_clusters(SubSeq(cfile, 1, n - 1)).clusters

(***************************************************************************)
(* C7.  As stated: the report ">Cluster 0" followed by the line            *)
(* ">52__TetA_Tet__TetA__1545.consensus...|sampleX..." gives               *)
(* index["sampleX"]["TetA_1545"] = "0".                                     *)
(***************************************************************************)
ScenarioALine == ">52__TetA_Tet__TetA__1545.consensus...|sampleX..."

C7_ScenarioA_AsStated ==
    (cfile = <<">Cluster 0\n", ScenarioALine \o "\n">> /\ ~InReadClusters)
    => /\ InIndex(clusters, "sampleX", "TetA_1545")
       /\ clusters["sampleX"]["TetA_1545"] = "0"

(***************************************************************************)
(* C7, amended.  The member line of cd-hit-est, which does not begin with  *)
(* ">" ("0\t1545nt, >52__TetA_Tet__TetA__1545.consensus...|sampleX..."),   *)
(* after ">Cluster 0" gives index["sampleX"]["TetA_1545"] = "0"; the line  *)
(* of the scenario as written begins with ">" and is read as a header: no  *)
(* entry is made and the carried cluster identifier becomes the whole line.*)
(***************************************************************************)
C7_ScenarioA ==
    /\ (cfile = <<">Cluster 0\n", "0\t1545nt, " \o ScenarioALine \o "\n">>
        /\ ci = 2)
       => /\ InIndex(clusters, "sampleX", "TetA_1545")
          /\ clusters["sampleX"]["TetA_1545"] = "0"
          /\ \A s \in DOMAIN clusters : DOMAIN clusters[s] \subseteq {"TetA_1545"}
          /\ cluster_id = <<"0">>
    /\ (cfile = <<">Cluster 0\n", ScenarioALine \o "\n">> /\ ci = 2)
       => /\ \A s \in DOMAIN clusters : DOMAIN clusters[s] = {}
          /\ pc = "read_clusters" => clusters = EmptyDict
          /\ cluster_id = <<ScenarioALine>>

C7_Witness ==
    /\ cfile = <<">Cluster 0\n", "0\t1545nt, " \o ScenarioALine \o "\n">>
    /\ ci = 2
    /\ InIndex(clusters, "sampleX", "TetA_1545")
    /\ clusters["sampleX"]["TetA_1545"] = "0"

(***************************************************************************)
(* C10.  A member line (not blank) without the ">" ... ".consensus" or     *)
(* the "|" ... "..." framing is never passed over: the run ends at it with *)
(* the parse error (IndexError), later lines are not read, and nothing,    *)
(* not even the table header, has been written.                            *)
(***************************************************************************)
C10_ParseErrorIsFatal ==
    /\ \A j \in 1..ci :
          (~IsHeaderLine(cfile[j]) /\ ~IsBlankLine(cfile[j]))
             => WellFramed(cfile[j])
    /\ ( /\ pc # "read_clusters"
         /\ ci < Len(cfile)
         /\ ~IsHeaderLine(cfile[ci + 1])
         /\ ~IsBlankLine(cfile[ci + 1])
         /\ ~WellFramed(cfile[ci + 1]) )
       => /\ pc = "aborted"
          /\ err = "IndexError"
          /\ out = <<>>
          /\ ~ENABLED Next
    /\ (pc # "read_clusters" /\ pc # "aborted") => ci = Len(cfile)

\* aborted at a member line without ".consensus", with a line left unread
C10_Witness ==
    /\ pc = "aborted"
    /\ err = "IndexError"
    /\ ci >= 1
    /\ ci + 1 < Len(cfile)
    /\ ~IsHeaderLine(cfile[ci + 1])
    /\ HasFraming(cfile[ci + 1], "|", "...")
    /\ ~HasFraming(cfile[ci + 1], ">", ".consensus")

(***************************************************************************)
(* Vocabulary of the table                                                 *)
(***************************************************************************)
\* the tab-separated fields of a table line
RowFields(raw) == Split(Content(raw), "\t")

\* the field without any of its trailing question marks
Unmarked(field) ==
    LET n == CHOOSE n \in 0..Len(field) :
               /\ \A j \in (n + 1)..Len(field) : SubSeq(field, j, j) = "?"
               /\ n = 0 \/ SubSeq(field, n, n) # "?"
    IN  SubSeq(field, 1, n)

\* the field with one trailing question mark removed, when it has one
OneMarkRemoved(field) ==
    IF EndsWith(field, "?") THEN DropLast(field) ELSE field

IsVariant(field) == EndsWith(Unmarked(field), "*")

VariantName(field) == DropLast(Unmarked(field))

\* a variant call whose (sample, allele name) pair the index lacks
VariantAbsent(d, s, field) ==
    IsVariant(field) /\ ~InIndex(d, s, VariantName(field))

\* what a call of sample s is rewritten to
ExpectedField(d, s, field) ==
    IF IsVariant(field)
    THEN VariantName(field) \o "." \o d[s][VariantName(field)]
    ELSE Unmarked(field)

ExpectedRow(d, raw) ==
    LET f == RowFields(raw)
    IN  Join([j \in 1..Len(f) |->
                 IF j = 1 THEN f[1] ELSE ExpectedField(d, f[1], f[j])], "\t")

\* the fields of the current row that were rewritten without an exception
Rewritten == IF pc \in {"fields", "aborted"} /\ ri >= 1 THEN 2..fi ELSE {}

(***************************************************************************)
(* C2.  A call that, without its uncertainty marks, ends in "*" and whose  *)
(* (sample, name) pair is in the index is rewritten, in its position of    *)
(* the row, to name "." index[sample][name], the name as in the table; the *)
(* rows printed are the rows so rewritten, joined by tabs.                 *)
(***************************************************************************)
C2_VariantRewrite ==
    /\ \A j \in Rewritten :
          (IsVariant(fields[j]) /\ InIndex(clusters, sample, VariantName(fields[j])))
             => new_line[j] = VariantName(fields[j]) \o "." \o
                                 clusters[sample][VariantName(fields[j])]
    /\ InAssign =>
          \A k \in 2..Len(out) :
             /\ \A j \in 2..Len(RowFields(tfile[k])) :
                   IsVariant(RowFields(tfile[k])[j]) =>
                      InIndex(clusters, RowFields(tfile[k])[1],
                              VariantName(RowFields(tfile[k])[j]))
             /\ out[k] = ExpectedRow(clusters, tfile[k])

\* Scenario C: Aac6-Iaa_760*? of sampleX, in cluster 140
C2_Witness ==
    /\ pc = "done"
    /\ Len(tfile) = 2
    /\ tfile[2] = "sampleX\tAac6-Iaa_760*?\n"
    /\ out[2] = "sampleX\tAac6-Iaa_760.140"

(***************************************************************************)
(* C3.  A variant call whose pair the index lacks is never rewritten or    *)
(* printed, and no run with such a call returns normally: the lookup for   *)
(* it, in data row k, ends the run with KeyError, the output being the     *)
(* header and the rewritten rows 1..k-1; nothing of row k is printed and   *)
(* nothing is printed afterwards.                                          *)
(***************************************************************************)
C3_LookupErrorIsFatal ==
    /\ \A j \in Rewritten : ~VariantAbsent(clusters, sample, fields[j])
    /\ InAssign =>
          \A k \in 2..Len(out) : \A j \in 2..Len(RowFields(tfile[k])) :
              ~VariantAbsent(clusters, RowFields(tfile[k])[1],
                             RowFields(tfile[k])[j])
    /\ err = "KeyError" =>
          /\ pc = "aborted"
          /\ ri >= 1 /\ ri < Len(tfile)
          /\ fields = RowFields(tfile[ri + 1])
          /\ VariantAbsent(clusters, sample, fields[fi + 1])
          /\ Len(out) = ri
          /\ out[1] = Content(tfile[1])
          /\ \A k \in 2..ri : out[k] = ExpectedRow(clusters, tfile[k])
          /\ ~ENABLED Next
    /\ ( /\ pc = "aborted" /\ ri >= 1
         /\ VariantAbsent(clusters, sample, fields[fi + 1]) )
       => err = "KeyError"
    /\ pc = "done" =>
          \A k \in 2..Len(tfile) : \A j \in 2..Len(RowFields(tfile[k])) :
              ~VariantAbsent(clusters, RowFields(tfile[k])[1],
                             RowFields(tfile[k])[j])

\* the second row fails at its second call, after a rewritten first row
C3_Witness ==
    /\ err = "KeyError"
    /\ ri = 2
    /\ fi = 2
    /\ Len(out) = 2
    /\ out[2] = "s\tA_7.0"
    /\ new_line = <<"s", "A_7">>

(***************************************************************************)
(* C4.  A run that does not abort prints the first line of the table       *)
(* unchanged, then one line per data row in the order of the rows, each    *)
(* with as many tab-separated fields as its row and the same sample as     *)
(* first field.                                                            *)
(***************************************************************************)
C4_OneLinePerRow ==
    pc = "done" =>
       /\ Len(out) = Len(tfile)
       /\ out[1] = Content(tfile[1])
       /\ \A k \in 2..Len(tfile) :
             /\ Len(Split(out[k], "\t")) = Len(RowFields(tfile[k]))
             /\ Split(out[k], "\t")[1] = RowFields(tfile[k])[1]
             /\ Occurrences(out[k], "\n") = {}

(***************************************************************************)
(* C5.  A data row in which no call ends in "?" or "*", the empty call     *)
(* included, is printed with every field unchanged and without an error.   *)
(***************************************************************************)
NoMarker(field) == ~EndsWith(field, "?") /\ ~EndsWith(field, "*")

MarkerFree(raw) ==
    \A j \in 2..Len(RowFields(raw)) : NoMarker(RowFields(raw)[j])

C5_MarkerFreeRowUnchanged ==
    /\ InAssign =>
          \A k \in 2..Len(out) :
              MarkerFree(tfile[k]) => out[k] = Content(tfile[k])
    /\ (pc = "aborted" /\ ri >= 1 /\ ri < Len(tfile))
          => ~MarkerFree(tfile[ri + 1])

(***************************************************************************)
(* C8.  As stated: exactly one trailing "?" is removed from a call, so a   *)
(* call that does not end in "*" once that one mark is removed is emitted  *)
(* as the call without that one mark.                                      *)
(***************************************************************************)
C8_OneMarkRemoved_AsStated ==
    \A j \in Rewritten :
        ~EndsWith(OneMarkRemoved(fields[j]), "*")
           => new_line[j] = OneMarkRemoved(fields[j])

(***************************************************************************)
(* C8, amended.  Every trailing "?" is removed from a call (a call ending  *)
(* in n >= 1 question marks keeps none), and a call without a trailing "?" *)
(* is left as it is by the stripping: a call that is no variant is emitted *)
(* as the call without its trailing question marks, and a variant is       *)
(* looked up under the name before the "*" that precedes them.             *)
(***************************************************************************)
C8_AllMarksRemoved ==
    \A j \in Rewritten :
        /\ ~IsVariant(fields[j]) => new_line[j] = Unmarked(fields[j])
        /\ IsVariant(fields[j]) =>
              StartsWith(new_line[j], VariantName(fields[j]) \o ".")
        /\ (~EndsWith(fields[j], "?") /\ ~EndsWith(fields[j], "*"))
              => new_line[j] = fields[j]

\* a call with two question marks was rewritten to the bare name
C8_Witness ==
    /\ pc = "fields"
    /\ fi = 2
    /\ Len(fields) = 2
    /\ fields[2] = "A_7??"
    /\ new_line[2] = "A_7"

(***************************************************************************)
(* C9.  Once read_clusters has returned, the index keeps the sample keys   *)
(* and the entries it was built with, in every state of the rewriting, the *)
(* state of a failed lookup included.                                      *)
(***************************************************************************)
C9_IndexReadOnly ==
    InAssign => clusters = read_clusters(cfile).clusters

====
